---------------------------- MODULE Spec2Model ----------------------------
(***************************************************************************)
(* Verification model of ersincine/automata: the leftmost-derivation       *)
(* search of cfg.py, the configuration search of npda.py and the step      *)
(* engine of tm.py.  A Python string is a sequence of one-character        *)
(* strings; a Python set is a set; the iteration order of a set is an      *)
(* arbitrary order fixed when the object is built.                         *)
(***************************************************************************)
EXTENDS Integers, Sequences, FiniteSets, TLC

VARIABLES
    cfg_given,      \* the arguments of CFG.from_rules
    cfg_variables,  \* CFG.variables
    cfg_terminals,  \* CFG.terminals
    cfg_rules,      \* CFG.rules: set of <<lhs, rhs>>
    cfg_start,      \* CFG.start_variable
    cfg_order,      \* iteration order of the set _find_rules returns, per variable
    cfg_call,       \* the method called on the grammar and its current_string
    cfg_target,     \* the string argument of generate or derive
    cfg_bound,      \* max_variable_count_in_intermediate_strings
    cfg_pool,       \* the pool set of one top-level query
    cfg_stack,      \* active leftmost_derive calls inside their for loop
    cfg_arg,        \* current_string argument of the call being entered
    cfg_pc,         \* "new" | "failed" | "ready" | "call" | "loop" | "done" | "raised"
    cfg_outcome,    \* how the last entered call left its prologue
    cfg_result,     \* the list generate returns
    pp_derivation,  \* the derivation argument of pretty_print_derivation
    pp_minimize,    \* the minimize argument of the last call
    pp_printed,     \* what the last call printed: a message, or the list it joined
    pp_pc,          \* "ready" | "printed"
    pp_round,       \* calls made so far
    pp_compressed,  \* whether pp_derivation is the output of a minimizing call
    tm_given,       \* the entry point called to build a machine, and its arguments
    tm_transitions, \* TM.transitions
    tm_states,      \* TM.states_except_reject_state
    tm_alphabet,    \* TM.tape_alphabet
    tm_start,       \* TM.start_state
    tm_input,       \* the string argument of accepts
    tm_tape,        \* the tape list of the running query
    tm_state,       \* the state argument of _simulate
    tm_head,        \* the head argument of _simulate
    tm_pc,          \* "new" | "failed" | "ready" | "run" | "done"
    tm_result,      \* what accepts returned: "True" | "False"
    tm_steps,       \* transitions applied by the running query
    tm_last,        \* the transition the last _simulate call applied, and where
    npda_given,       \* the arguments of NPDA.from_transitions_and_accept_states
    npda_transitions, \* NPDA.transitions
    npda_states,      \* NPDA.states
    npda_input_alphabet, \* NPDA.input_alphabet
    npda_stack_alphabet, \* NPDA.stack_alphabet
    npda_start,       \* NPDA.start_state
    npda_accept,      \* NPDA.accept_states
    npda_order,       \* iteration order of NPDA.transitions, per source state
    npda_input,       \* the string argument of accepts
    npda_stack,       \* active _simulate calls inside their for loop
    npda_arg,         \* arguments of the _simulate call being entered
    npda_pc,          \* "new" | "failed" | "ready" | "call" | "loop" | "done" | "unbounded"
    npda_result,      \* what accepts returned: "True" | "False"
    npda_last,        \* the transition applied for the last call, and on what
    first_answer,     \* the first query a caller made on its model, and the answer
    tests             \* the perform_tests call: its lists, place, error_found, output

cfgvars == <<cfg_given, cfg_variables, cfg_terminals, cfg_rules, cfg_start, cfg_order,
             cfg_call, cfg_target, cfg_bound, cfg_pool, cfg_stack, cfg_arg, cfg_pc,
             cfg_outcome, cfg_result>>

ppvars == <<pp_derivation, pp_minimize, pp_printed, pp_pc, pp_round, pp_compressed>>

tmvars == <<tm_given, tm_transitions, tm_states, tm_alphabet, tm_start, tm_input,
            tm_tape, tm_state, tm_head, tm_pc, tm_result, tm_steps, tm_last>>

npdavars == <<npda_given, npda_transitions, npda_states, npda_input_alphabet,
              npda_stack_alphabet, npda_start, npda_accept, npda_order, npda_input,
              npda_stack, npda_arg, npda_pc, npda_result, npda_last>>

callervars == <<first_answer, tests>>

vars == <<cfgvars, ppvars, tmvars, npdavars, callervars>>

notcfg == <<ppvars, tmvars, npdavars, callervars>>
notpp == <<cfgvars, tmvars, npdavars, callervars>>
nottm == <<cfgvars, ppvars, npdavars, callervars>>
notnpda == <<cfgvars, ppvars, tmvars, callervars>>

-----------------------------------------------------------------------------
(* An engine that is not exercised stays in its idle state *)

\* no grammar query is running
CFGIdle ==
    /\ cfg_given = [start_variable |-> "", rules |-> {}]
    /\ cfg_variables = {}
    /\ cfg_terminals = {}
    /\ cfg_rules = {}
    /\ cfg_start = "S"
    /\ cfg_order = <<>>
    /\ cfg_call = [method |-> "", current_string |-> <<>>]
    /\ cfg_target = <<>>
    /\ cfg_bound = 0
    /\ cfg_pool = {}
    /\ cfg_stack = <<>>
    /\ cfg_arg = <<>>
    /\ cfg_pc = "idle"
    /\ cfg_outcome = "none"
    /\ cfg_result = <<>>

\* nothing is being printed
PPIdle ==
    /\ pp_derivation = <<>>
    /\ pp_minimize = FALSE
    /\ pp_printed = [message |-> "", list |-> <<>>]
    /\ pp_pc = "idle"
    /\ pp_round = 0
    /\ pp_compressed = FALSE

\* no machine exists
TMIdle ==
    /\ tm_given = [entry |-> "", states_except_reject_state |-> {}, tape_alphabet |-> {},
                    transitions |-> {}, start_state |-> ""]
    /\ tm_transitions = {}
    /\ tm_states = {}
    /\ tm_alphabet = {}
    /\ tm_start = ""
    /\ tm_input = <<>>
    /\ tm_tape = <<>>
    /\ tm_state = ""
    /\ tm_head = 0
    /\ tm_pc = "idle"
    /\ tm_result = "none"
    /\ tm_steps = 0
    /\ tm_last = [applied |-> FALSE]

\* no automaton exists
NPDAIdle ==
    /\ npda_given = [start_state |-> "", transitions |-> {}, accept_states |-> {}]
    /\ npda_transitions = {}
    /\ npda_states = {}
    /\ npda_input_alphabet = {}
    /\ npda_stack_alphabet = {}
    /\ npda_start = ""
    /\ npda_accept = {}
    /\ npda_order = <<>>
    /\ npda_input = <<>>
    /\ npda_stack = <<>>
    /\ npda_arg = [state |-> "", remaining_input |-> <<>>, stack |-> <<>>]
    /\ npda_pc = "idle"
    /\ npda_result = "none"
    /\ npda_last = [applied |-> FALSE]

\* no caller has asked anything
CallerIdle ==
    /\ first_answer = [asked |-> FALSE]
    /\ tests = [pc |-> "idle"]

-----------------------------------------------------------------------------
(* Bounds of the model *)

MaxRules == 3
MaxGivenRules == 2
MaxTargetLen == 2
MaxVarBound == 2
MaxDerivationLen == 5
MaxRounds == 2
MaxTMTransitions == 4
MaxTMInitTransitions == 1
MaxTMInputLen == 2
MaxTMSteps == 8
MaxNPDATransitions == 3
MaxNPDAInputLen == 2
MaxDepth == 7
MaxSessionTransitions == 2
MaxSessionInputLen == 1
MaxTestListLen == 1

-----------------------------------------------------------------------------
(* Characters *)

Upper == {"S", "A"}
Lower == {"a", "b", "e"}
Digit == {"0"}

IsUpper(s) == s \in Upper
IsLower(s) == s \in Lower
IsDigit(s) == s \in Digit

\* sequences over S of length 0..n
SeqsUpTo(S, n) == UNION {[1..k -> S] : k \in 0..n}

\* all orders in which a set can be iterated
Perms(S) == {p \in [1..Cardinality(S) -> S] : \A x \in S : \E i \in DOMAIN p : p[i] = x}

\* str.replace("e", "")
StripE(string) == SelectSeq(string, LAMBDA s : s # "e")

-----------------------------------------------------------------------------
(* cfg.py: static helpers *)

count_terminals(string) ==
    Len(SelectSeq(string, LAMBDA s : IsDigit(s) \/ (IsLower(s) /\ s # "e")))

count_variables(string) == Len(SelectSeq(string, IsUpper))

find_leftmost_variable(string) ==
    string[CHOOSE i \in DOMAIN string :
              IsUpper(string[i]) /\ \A j \in 1..(i - 1) : ~IsUpper(string[j])]

\* index of the first occurrence of symbol lhs in string
FirstIndex(string, lhs) ==
    CHOOSE i \in DOMAIN string :
        string[i] = lhs /\ \A j \in 1..(i - 1) : string[j] # lhs

\* str.replace(lhs, rhs) without the count argument
apply_rule_all(current_string, rule) ==
    LET F[i \in 0..Len(current_string)] ==
            IF i = 0 THEN <<>>
            ELSE F[i - 1] \o (IF current_string[i] = rule[1] THEN rule[2]
                                                             ELSE <<current_string[i]>>)
    IN  F[Len(current_string)]

\* str.replace(lhs, rhs, 1) with the prefix cut one character short
apply_rule_short_prefix(current_string, rule) ==
    LET i == FirstIndex(current_string, rule[1])
    IN  SubSeq(current_string, 1, IF i >= 2 THEN i - 2 ELSE 0) \o rule[2]
            \o SubSeq(current_string, i + 1, Len(current_string))

apply_rule(current_string, rule) ==
    LET lhs == rule[1]
        rhs == rule[2]
        i == FirstIndex(current_string, lhs)
    IN  SubSeq(current_string, 1, i - 1) \o rhs
            \o SubSeq(current_string, i + 1, Len(current_string))

-----------------------------------------------------------------------------
(* cfg.py: construction *)

RuleUniverse ==
    { <<"S", <<"e">>>>,
      <<"S", <<"a", "S", "b">>>>,
      <<"S", <<"S", "S">>>>,
      <<"S", <<"S">>>>,
      <<"S", <<"A">>>>,
      <<"S", <<"a", "A">>>>,
      <<"A", <<"S">>>>,
      <<"A", <<"a">>>>,
      <<"A", <<"A", "e">>>> }

RhsSymbols(rules) == UNION {{r[2][i] : i \in DOMAIN r[2]} : r \in rules}

from_rules_variables(rules) == {r[1] : r \in rules}

from_rules_terminals(rules) ==
    {s \in RhsSymbols(rules) : ~(s = "e" \/ IsUpper(s)) /\ (IsLower(s) \/ IsDigit(s))}

\* lines 141-164 without the membership assert on the symbols of a right-hand side
CFGInitOKAnyRhs(variables, terminals, rules, start_variable) ==
    /\ start_variable \in variables
    /\ variables \cap terminals = {}
    /\ "e" \notin terminals
    /\ \A s \in variables : IsUpper(s)
    /\ \A s \in terminals : IsLower(s) \/ IsDigit(s)
    /\ \A r \in rules : r[1] \in variables
    /\ \A v \in variables : \E r \in rules : r[1] = v

\* every assert of CFG.__init__ passes
CFGInitOK(variables, terminals, rules, start_variable) ==
    /\ start_variable \in variables
    /\ variables \cap terminals = {}
    /\ "e" \notin terminals
    /\ \A s \in variables : IsUpper(s)
    /\ \A s \in terminals : IsLower(s) \/ IsDigit(s)
    /\ \A r \in rules :
          /\ r[1] \in variables
          /\ \A i \in DOMAIN r[2] : r[2][i] \in ({"e"} \cup variables \cup terminals)
    /\ \A v \in variables : \E r \in rules : r[1] = v

find_rules(variable) == {r \in cfg_rules : r[1] = variable}

-----------------------------------------------------------------------------
(* cfg.py: pretty_print_derivation *)

\* list.count(x)
ListCount(list, x) == Cardinality({i \in DOMAIN list : list[i] = x})

\* list.index(x), 0-based
ListIndex(list, x) ==
    (CHOOSE i \in DOMAIN list : list[i] = x /\ \A j \in 1..(i - 1) : list[j] # x) - 1

\* list[::-1] and reversed(list)
Reversed(list) == [i \in DOMAIN list |-> list[Len(list) + 1 - i]]

\* list[from:to] with 0-based bounds inside 0..len(list)
Slice(list, from, to) == SubSeq(list, from + 1, to)

\* lines 102-111 with the tail taken after the last occurrence
CollapseDropLast(psd, string) ==
    LET first_idx == ListIndex(psd, string)
        last_idx == Len(psd) - ListIndex(Reversed(psd), string) - 1
    IN  Slice(psd, 0, first_idx) \o Slice(psd, last_idx + 1, Len(psd))

\* lines 102-111: drop everything from the first occurrence up to the last one
Collapse(psd, string) ==
    LET first_idx == ListIndex(psd, string)
        last_idx == Len(psd) - ListIndex(Reversed(psd), string) - 1
    IN  Slice(psd, 0, first_idx) \o Slice(psd, last_idx, Len(psd))

\* lines 99-112 leaving the loop after the first collapse
MinimizeFirstOnly(derivation) ==
    LET rev == Reversed(derivation)
        F[k \in 0..Len(derivation)] ==
            IF k = 0 THEN derivation
            ELSE IF F[k - 1] = derivation /\ ListCount(F[k - 1], rev[k]) > 1
                 THEN Collapse(F[k - 1], rev[k])
                 ELSE F[k - 1]
    IN  F[Len(derivation)]

\* lines 99-112: one pass over reversed(derivation)
Minimize(derivation) ==
    LET rev == Reversed(derivation)
        F[k \in 0..Len(derivation)] ==
            IF k = 0 THEN derivation
            ELSE IF ListCount(F[k - 1], rev[k]) > 1
                 THEN Collapse(F[k - 1], rev[k])
                 ELSE F[k - 1]
    IN  F[Len(derivation)]

\* lines 89-114: the message, or the list whose " -> " join is printed
pretty_print_derivation(derivation, minimize) ==
    IF Len(derivation) = 0
    THEN [message |-> "There is no derivation.", list |-> <<>>]
    ELSE [message |-> "",
          list |-> IF minimize THEN Minimize(derivation) ELSE derivation]

PPStrings == { <<"S">>, <<"a", "S">>, <<"a", "A">>, <<"a", "a">> }

PPStart ==
    /\ pp_derivation \in SeqsUpTo(PPStrings, MaxDerivationLen)
    /\ pp_minimize = FALSE
    /\ pp_printed = [message |-> "", list |-> <<>>]
    /\ pp_pc = "ready"
    /\ pp_round = 0
    /\ pp_compressed = FALSE

PrettyPrint ==
    /\ pp_pc = "ready"
    /\ \E minimize \in BOOLEAN :
          /\ pp_minimize' = minimize
          /\ pp_printed' = pretty_print_derivation(pp_derivation, minimize)
    /\ pp_pc' = "printed"
    /\ pp_round' = pp_round + 1
    /\ UNCHANGED <<pp_derivation, pp_compressed>>
    /\ UNCHANGED notpp

\* the caller passes the list just printed to pretty_print_derivation again
PrintAgain ==
    /\ pp_pc = "printed"
    /\ pp_round < MaxRounds
    /\ pp_printed.message = ""
    /\ pp_derivation' = pp_printed.list
    /\ pp_compressed' = pp_minimize
    /\ pp_pc' = "ready"
    /\ UNCHANGED <<pp_minimize, pp_printed, pp_round>>
    /\ UNCHANGED notpp

-----------------------------------------------------------------------------
(* cfg.py: leftmost_derive *)

\* current_derivation + [current_string] with the string of the last call
\* added by its caller as well
DerivationRepeatingLast(stack) ==
    [i \in 1..(Len(stack) + (IF stack = <<>> THEN 0 ELSE 1)) |->
        IF i <= Len(stack) THEN stack[i].cur ELSE stack[Len(stack)].cur]

\* the strings of current_derivation + [current_string] of the active calls
Derivation(stack) == [i \in DOMAIN stack |-> stack[i].cur]

\* line 197
AlreadyVisitedNever(current_string) == FALSE

AlreadyVisited(current_string) == current_string \in cfg_pool

\* lines 209-212
TooManyVariablesGE(current_string) == count_variables(current_string) >= cfg_bound

\* lines 209-212 letting one more variable through
TooManyVariablesPlusOne(current_string) == count_variables(current_string) > cfg_bound + 1

TooManyVariables(current_string) == count_variables(current_string) > cfg_bound

\* lines 226-227
TooManyTerminals(cur, string) == count_terminals(cur) > Len(string)

\* lines 197-243: what a call does with its argument before its for loop; it
\* raises at the assert of line 218, of _find_leftmost_variable (line 79) or
\* of _find_rules (line 173)
Prologue(current_string) ==
    IF AlreadyVisited(current_string) THEN "visited"
    ELSE IF TooManyVariables(current_string) THEN "variables"
    ELSE LET cur == StripE(current_string)
             string == StripE(cfg_target)
             terminal_count == count_terminals(cur)
         IN  IF Len(string) # count_terminals(string) THEN "raise"
             ELSE IF TooManyTerminals(cur, string) THEN "terminals"
             ELSE IF terminal_count = Len(cur)
                  THEN (IF cur = string THEN "found" ELSE "mismatch")
             ELSE IF count_variables(cur) = 0 THEN "raise"
             ELSE IF find_leftmost_variable(cur) \notin cfg_variables THEN "raise"
             ELSE "expand"

\* a call returned []: the caller's loop goes on, or generate returns []
ReturnEmpty(stack) ==
    IF stack = <<>>
    THEN /\ cfg_pc' = "done"
         /\ cfg_result' = <<>>
    ELSE /\ cfg_pc' = "loop"
         /\ cfg_result' = cfg_result

CFGCall ==
    /\ cfg_pc = "call"
    /\ LET out == Prologue(cfg_arg)
           cur == StripE(cfg_arg)
       IN  /\ cfg_outcome' = out
           /\ cfg_pool' = IF out = "visited" THEN cfg_pool ELSE cfg_pool \cup {cfg_arg}
           /\ CASE out = "found" ->
                     /\ cfg_pc' = "done"
                     /\ cfg_result' = Derivation(cfg_stack) \o <<cur>>
                     /\ cfg_stack' = <<>>
                [] out = "expand" ->
                     /\ cfg_pc' = "loop"
                     /\ cfg_stack' = Append(cfg_stack, [cur |-> cur, idx |-> 1])
                     /\ cfg_result' = cfg_result
                [] out = "raise" ->
                     /\ cfg_pc' = "raised"
                     /\ cfg_stack' = <<>>
                     /\ cfg_result' = cfg_result
                [] OTHER ->
                     /\ ReturnEmpty(cfg_stack)
                     /\ cfg_stack' = cfg_stack
    /\ UNCHANGED <<cfg_given, cfg_variables, cfg_terminals, cfg_rules, cfg_start,
                   cfg_order, cfg_call, cfg_target, cfg_bound, cfg_arg>>
    /\ UNCHANGED notcfg

\* line 245 with the loop left after its first rule
RulesLeftFirstOnly(idx, appropriate_rules) == idx <= 1 /\ idx <= Len(appropriate_rules)

\* line 245: the for loop has a rule left to take; idx counts from 1
RulesLeft(idx, appropriate_rules) == idx <= Len(appropriate_rules)

\* lines 245-252: the for loop takes its next rule and calls leftmost_derive
CFGNextRule ==
    /\ cfg_pc = "loop"
    /\ cfg_stack # <<>>
    /\ LET n == Len(cfg_stack)
           top == cfg_stack[n]
           appropriate_rules == cfg_order[find_leftmost_variable(top.cur)]
       IN  /\ RulesLeft(top.idx, appropriate_rules)
           /\ cfg_arg' = apply_rule(top.cur, appropriate_rules[top.idx])
           /\ cfg_stack' = [cfg_stack EXCEPT ![n].idx = top.idx + 1]
    /\ cfg_pc' = "call"
    /\ UNCHANGED <<cfg_given, cfg_variables, cfg_terminals, cfg_rules, cfg_start,
                   cfg_order, cfg_call, cfg_target, cfg_bound, cfg_pool, cfg_outcome,
                   cfg_result>>
    /\ UNCHANGED notcfg

\* line 256: the for loop is exhausted
CFGExhausted ==
    /\ cfg_pc = "loop"
    /\ cfg_stack # <<>>
    /\ LET n == Len(cfg_stack)
           top == cfg_stack[n]
           appropriate_rules == cfg_order[find_leftmost_variable(top.cur)]
       IN  /\ ~RulesLeft(top.idx, appropriate_rules)
           /\ cfg_stack' = SubSeq(cfg_stack, 1, n - 1)
           /\ ReturnEmpty(SubSeq(cfg_stack, 1, n - 1))
    /\ UNCHANGED <<cfg_given, cfg_variables, cfg_terminals, cfg_rules, cfg_start,
                   cfg_order, cfg_call, cfg_target, cfg_bound, cfg_pool, cfg_arg,
                   cfg_outcome>>
    /\ UNCHANGED notcfg

RECURSIVE leftmost_derive(_, _, _)
RECURSIVE leftmost_derive_loop(_, _, _, _)

\* lines 197-243 as a function of its arguments and the visited set: what the
\* call on current_string returns ("found" for a derivation, "empty" for [],
\* "raise") when the rules of a variable are met in the given order, and the
\* visited set it leaves
leftmost_derive(order, current_string, pool) ==
    LET cur == StripE(current_string)
        string == StripE(cfg_target)
        visited == pool \cup {current_string}
    IN  IF current_string \in pool THEN [verdict |-> "empty", pool |-> pool]
        ELSE IF TooManyVariables(current_string) THEN [verdict |-> "empty", pool |-> visited]
        ELSE IF Len(string) # count_terminals(string) THEN [verdict |-> "raise", pool |-> visited]
        ELSE IF TooManyTerminals(cur, string) THEN [verdict |-> "empty", pool |-> visited]
        ELSE IF count_terminals(cur) = Len(cur)
             THEN [verdict |-> IF cur = string THEN "found" ELSE "empty", pool |-> visited]
        ELSE IF count_variables(cur) = 0 THEN [verdict |-> "raise", pool |-> visited]
        ELSE IF find_leftmost_variable(cur) \notin DOMAIN order
             THEN [verdict |-> "raise", pool |-> visited]
        ELSE leftmost_derive_loop(order, cur, 1, visited)

\* lines 245-256: the for loop from its idx-th rule on
leftmost_derive_loop(order, cur, idx, pool) ==
    LET appropriate_rules == order[find_leftmost_variable(cur)]
        derivation == leftmost_derive(order, apply_rule(cur, appropriate_rules[idx]), pool)
    IN  IF ~RulesLeft(idx, appropriate_rules) THEN [verdict |-> "empty", pool |-> pool]
        ELSE IF derivation.verdict = "empty"
             THEN leftmost_derive_loop(order, cur, idx + 1, derivation.pool)
             ELSE derivation

Grammars ==
    {rules \in SUBSET RuleUniverse :
        /\ Cardinality(rules) \in 1..MaxRules
        /\ CFGInitOK(from_rules_variables(rules), from_rules_terminals(rules), rules, "S")}

Orders(rules) ==
    {o \in [from_rules_variables(rules) -> UNION {Perms({r \in rules : r[1] = v}) : v \in Upper}] :
        \A v \in DOMAIN o : o[v] \in Perms({r \in rules : r[1] = v})}

Targets == SeqsUpTo({"a", "b"}, MaxTargetLen)

\* generate(string, bound) on a constructed grammar: derive from the start variable
CFGQuery ==
    /\ cfg_rules \in Grammars
    /\ cfg_given = [start_variable |-> "S", rules |-> cfg_rules]
    /\ cfg_variables = from_rules_variables(cfg_rules)
    /\ cfg_terminals = from_rules_terminals(cfg_rules)
    /\ cfg_start = "S"
    /\ cfg_order \in Orders(cfg_rules)
    /\ cfg_call = [method |-> "generate", current_string |-> <<"S">>]
    /\ cfg_target \in Targets
    /\ cfg_bound \in 0..MaxVarBound
    /\ cfg_pool = {}
    /\ cfg_stack = <<>>
    /\ cfg_arg = <<cfg_start>>
    /\ cfg_pc = "call"
    /\ cfg_outcome = "none"
    /\ cfg_result = <<>>

-----------------------------------------------------------------------------
(* cfg.py: from_rules, generate and derive on any arguments *)

\* rules a caller can hand to from_rules: those of RuleUniverse, one with a
\* symbol that is no letter and no digit, one with a lowercase left-hand side
GivenRuleUniverse ==
    RuleUniverse \cup { <<"S", <<"a", "+">>>>, <<"a", <<"S">>>> }

\* lines 121-130: no symbol of a right-hand side reaches the assert False
FromRulesOK(rules) ==
    \A s \in RhsSymbols(rules) : (s = "e" \/ IsUpper(s)) \/ (IsLower(s) \/ IsDigit(s))

\* CFG.from_rules(start_variable, rules) is about to be called
CFGNew ==
    /\ cfg_given \in [start_variable : {"S", "A", "a"},
                      rules : {R \in SUBSET GivenRuleUniverse :
                                  Cardinality(R) <= MaxGivenRules}]
    /\ cfg_variables = {}
    /\ cfg_terminals = {}
    /\ cfg_rules = {}
    /\ cfg_start = ""
    /\ cfg_order = <<>>
    /\ cfg_call = [method |-> "", current_string |-> <<>>]
    /\ cfg_target = <<>>
    /\ cfg_bound = 0
    /\ cfg_pool = {}
    /\ cfg_stack = <<>>
    /\ cfg_arg = <<>>
    /\ cfg_pc = "new"
    /\ cfg_outcome = "none"
    /\ cfg_result = <<>>

\* lines 117-169: from_rules and the constructor
CFGConstruct ==
    /\ cfg_pc = "new"
    /\ LET rules == cfg_given.rules
           variables == from_rules_variables(rules)
           terminals == from_rules_terminals(rules)
       IN  IF /\ FromRulesOK(rules)
              /\ CFGInitOK(variables, terminals, rules, cfg_given.start_variable)
           THEN /\ cfg_pc' = "ready"
                /\ cfg_variables' = variables
                /\ cfg_terminals' = terminals
                /\ cfg_rules' = rules
                /\ cfg_start' = cfg_given.start_variable
                /\ cfg_order' \in Orders(rules)
           ELSE /\ cfg_pc' = "failed"
                /\ UNCHANGED <<cfg_variables, cfg_terminals, cfg_rules, cfg_start,
                               cfg_order>>
    /\ UNCHANGED <<cfg_given, cfg_call, cfg_target, cfg_bound, cfg_pool, cfg_stack,
                   cfg_arg, cfg_outcome, cfg_result>>
    /\ UNCHANGED notcfg

\* strings a caller can ask for: terminal strings, and strings with a variable,
\* the epsilon symbol or a character that is no letter and no digit
QueryStrings ==
    SeqsUpTo({"a", "b"}, MaxTargetLen)
        \cup { <<"S">>, <<"e">>, <<"+">>, <<"a", "S">>, <<"e", "a">>, <<"a", "+">> }

\* current strings a caller can hand to derive
CurrentStrings ==
    { <<>>, <<"S">>, <<"A">>, <<"a">>, <<"a", "S">>, <<"S", "b">>, <<"A", "S">>,
      <<"e">>, <<"S", "e">>, <<"+">>, <<"S", "+">> }

\* lines 286-291
GenerateOK(string) ==
    /\ \A i \in DOMAIN string : IsLower(string[i]) \/ IsDigit(string[i])
    /\ \A i \in DOMAIN string : string[i] # "e"

\* lines 264-273 without the assert of lines 274-276
DeriveOKAnyLowercase(current_string, string) ==
    /\ \A i \in DOMAIN string :
          IsUpper(string[i]) \/ IsLower(string[i]) \/ IsDigit(string[i])
    /\ \A i \in DOMAIN current_string : current_string[i] # "e"
    /\ \A i \in DOMAIN string : IsLower(string[i]) \/ IsDigit(string[i])

\* lines 264-276
DeriveOK(current_string, string) ==
    /\ \A i \in DOMAIN string :
          IsUpper(string[i]) \/ IsLower(string[i]) \/ IsDigit(string[i])
    /\ \A i \in DOMAIN current_string : current_string[i] # "e"
    /\ \A i \in DOMAIN string : IsLower(string[i]) \/ IsDigit(string[i])
    /\ \A i \in DOMAIN string : string[i] # "e"

\* the pool a top-level call shares with the calls of an earlier query
SharedPool == cfg_pool

\* lines 194-195: a top-level call gets a pool of its own
FreshPool == {}

\* a top-level call leaves by an assert before any search
RaiseAtEntry(current_string, string, bound) ==
    /\ cfg_target' = string
    /\ cfg_bound' = bound
    /\ cfg_arg' = current_string
    /\ cfg_pool' = cfg_pool
    /\ cfg_stack' = <<>>
    /\ cfg_outcome' = "none"
    /\ cfg_result' = <<>>
    /\ cfg_pc' = "raised"

\* lines 258-281: derive(current_string, string, bound)
CallDerive(current_string, string, bound) ==
    IF DeriveOK(current_string, string)
    THEN /\ cfg_target' = string
         /\ cfg_bound' = bound
         /\ cfg_arg' = current_string
         /\ cfg_pool' = FreshPool
         /\ cfg_stack' = <<>>
         /\ cfg_outcome' = "none"
         /\ cfg_result' = <<>>
         /\ cfg_pc' = "call"
    ELSE RaiseAtEntry(current_string, string, bound)

\* lines 283-296: generate(string, bound)
CallGenerate(string, bound) ==
    /\ cfg_call' = [method |-> "generate", current_string |-> <<cfg_start>>]
    /\ IF GenerateOK(string)
       THEN CallDerive(<<cfg_start>>, string, bound)
       ELSE RaiseAtEntry(<<cfg_start>>, string, bound)

\* a caller calls generate on the grammar it has built
CFGGenerate ==
    /\ cfg_pc = "ready"
    /\ \E string \in QueryStrings, bound \in 0..MaxVarBound : CallGenerate(string, bound)
    /\ UNCHANGED <<cfg_given, cfg_variables, cfg_terminals, cfg_rules, cfg_start,
                   cfg_order>>
    /\ UNCHANGED notcfg

\* a caller calls derive on the grammar it has built
CFGDerive ==
    /\ cfg_pc = "ready"
    /\ \E current_string \in CurrentStrings, string \in QueryStrings,
          bound \in 0..MaxVarBound :
          /\ cfg_call' = [method |-> "derive", current_string |-> current_string]
          /\ CallDerive(current_string, string, bound)
    /\ UNCHANGED <<cfg_given, cfg_variables, cfg_terminals, cfg_rules, cfg_start,
                   cfg_order>>
    /\ UNCHANGED notcfg

-----------------------------------------------------------------------------
(* tm.py *)

TMUniverse ==
    { <<"q0", "a", "b", "r", "q0">>,
      <<"q0", "a", "a", "l", "q1">>,
      <<"q0", "b", "b", "l", "q0">>,
      <<"q0", ".", ".", "l", "q1">>,
      <<"q0", ".", ".", "r", "accept">>,
      <<"q1", "b", "a", "l", "q1">>,
      <<"q1", "b", "b", "r", "q0">>,
      <<"q1", "a", "a", "r", "accept">>,
      <<"q1", ".", "b", "r", "accept">>,
      <<"accept", "a", "a", "r", "q0">>,
      <<"accept", ".", ".", "s", "accept">> }

TMStartStates == {"q0", "q1", "accept"}

TMSymbols == {"a", "b", "."}

TMInputs == SeqsUpTo({"a", "b"}, MaxTMInputLen)

\* lines 63-70
from_transitions_states(transitions) ==
    {t[1] : t \in transitions} \cup {t[5] : t \in transitions}

from_transitions_alphabet(transitions) ==
    {t[2] : t \in transitions} \cup {t[3] : t \in transitions}

\* lines 87-98 comparing the written symbol too
NoSharedSourceAndReadAndWrite(transitions) ==
    Cardinality({<<t[1], t[2], t[3]>> : t \in transitions}) = Cardinality(transitions)

\* lines 87, 97-98: no (source, read_symbol) is met twice in the loop
NoSharedSourceAndRead(transitions) ==
    Cardinality({<<t[1], t[2]>> : t \in transitions}) = Cardinality(transitions)

\* lines 85-101 without the assert on "accept"
TMInitOKAnyAccept(states_except_reject_state, tape_alphabet, transitions, start_state) ==
    /\ "." \in tape_alphabet
    /\ \A t \in transitions :
          /\ t[1] \in states_except_reject_state
          /\ t[5] \in states_except_reject_state
          /\ t[2] \in tape_alphabet
          /\ t[3] \in tape_alphabet
          /\ t[4] \in {"l", "r"}
    /\ NoSharedSourceAndRead(transitions)
    /\ start_state \in states_except_reject_state

\* every assert of TM.__init__ passes
TMInitOK(states_except_reject_state, tape_alphabet, transitions, start_state) ==
    /\ "." \in tape_alphabet
    /\ \A t \in transitions :
          /\ t[1] \in states_except_reject_state
          /\ t[5] \in states_except_reject_state
          /\ t[2] \in tape_alphabet
          /\ t[3] \in tape_alphabet
          /\ t[4] \in {"l", "r"}
    /\ NoSharedSourceAndRead(transitions)
    /\ start_state \in states_except_reject_state
    /\ "accept" \in states_except_reject_state

\* the calls TM.from_transitions(start_state, transitions)
FromTransitionsCalls ==
    [entry : {"from_transitions"},
     states_except_reject_state : {{}},
     tape_alphabet : {{}},
     transitions : {T \in SUBSET TMUniverse : Cardinality(T) <= MaxTMTransitions},
     start_state : TMStartStates]

\* the calls TM(states_except_reject_state, tape_alphabet, transitions, start_state)
ConstructorCalls ==
    [entry : {"TM"},
     states_except_reject_state : SUBSET TMStartStates,
     tape_alphabet : SUBSET TMSymbols,
     transitions : {T \in SUBSET TMUniverse : Cardinality(T) <= MaxTMInitTransitions},
     start_state : TMStartStates]

\* TM.from_transitions or the constructor is about to be called
TMNew ==
    /\ tm_given \in FromTransitionsCalls \cup ConstructorCalls
    /\ tm_transitions = {}
    /\ tm_states = {}
    /\ tm_alphabet = {}
    /\ tm_start = ""
    /\ tm_input = <<>>
    /\ tm_tape = <<>>
    /\ tm_state = ""
    /\ tm_head = 0
    /\ tm_pc = "new"
    /\ tm_result = "none"
    /\ tm_steps = 0
    /\ tm_last = [applied |-> FALSE]

\* lines 59-106: from_transitions and the constructor, or the constructor alone
TMConstruct ==
    /\ tm_pc = "new"
    /\ LET transitions == tm_given.transitions
           states == IF tm_given.entry = "from_transitions"
                     THEN from_transitions_states(transitions)
                     ELSE tm_given.states_except_reject_state
           alphabet == IF tm_given.entry = "from_transitions"
                       THEN from_transitions_alphabet(transitions)
                       ELSE tm_given.tape_alphabet
       IN  IF TMInitOK(states, alphabet, transitions, tm_given.start_state)
           THEN /\ tm_pc' = "ready"
                /\ tm_states' = states
                /\ tm_alphabet' = alphabet
                /\ tm_transitions' = transitions
                /\ tm_start' = tm_given.start_state
           ELSE /\ tm_pc' = "failed"
                /\ UNCHANGED <<tm_states, tm_alphabet, tm_transitions, tm_start>>
    /\ UNCHANGED <<tm_given, tm_input, tm_tape, tm_state, tm_head, tm_result,
                   tm_steps, tm_last>>
    /\ UNCHANGED nottm

\* lines 108-112, head counted from 0
read_tape(tape, head) == IF head >= Len(tape) THEN "." ELSE tape[head + 1]

\* lines 114-117 extending the tape one cell past the cell written
write_tape_one_more(tape, head, symbol) ==
    LET extended == IF head + 1 >= Len(tape)
                    THEN tape \o [i \in 1..(head - Len(tape) + 2) |-> "."]
                    ELSE tape
    IN  [extended EXCEPT ![head + 1] = symbol]

\* lines 114-117
write_tape(tape, head, symbol) ==
    LET extended == IF head >= Len(tape)
                    THEN tape \o [i \in 1..(head - Len(tape) + 1) |-> "."]
                    ELSE tape
    IN  [extended EXCEPT ![head + 1] = symbol]

\* lines 128-133 without the clamp
MoveUnclamped(head, direction) == IF direction = "r" THEN head + 1 ELSE head - 1

\* lines 128-133
Move(head, direction) ==
    IF direction = "r" THEN head + 1
    ELSE IF head - 1 < 0 THEN 0 ELSE head - 1

\* line 125: the transitions the for loop can stop at
Applicable(state, tape, head) ==
    {t \in tm_transitions : t[1] = state /\ read_tape(tape, head) = t[2]}

\* line 120 testing the start state only
IsAcceptAtStart(state) == state = "accept" /\ tm_steps = 0

\* line 120 met only after the for loop has found no transition to take
IsAcceptUnlessSource(state) ==
    state = "accept" /\ \A t \in tm_transitions : t[1] # "accept"

\* line 120
IsAccept(state) == state = "accept"

\* line 143: accepts(string) calls _simulate(list(string), start_state, 0)
TMCallAccepts(string) ==
    /\ tm_input' = string
    /\ tm_tape' = string
    /\ tm_state' = tm_start
    /\ tm_head' = 0
    /\ tm_pc' = "run"
    /\ tm_result' = "none"
    /\ tm_steps' = 0
    /\ tm_last' = [applied |-> FALSE]
    /\ UNCHANGED <<tm_given, tm_transitions, tm_states, tm_alphabet, tm_start>>

\* a caller calls accepts on the machine
TMAccepts ==
    /\ tm_pc \in {"ready", "done"}
    /\ \E string \in TMInputs : TMCallAccepts(string)
    /\ UNCHANGED nottm

\* lines 120-121: every pending _simulate call returns True
TMReturnTrue ==
    /\ tm_pc = "run"
    /\ IsAccept(tm_state)
    /\ tm_pc' = "done"
    /\ tm_result' = "True"
    /\ UNCHANGED <<tm_given, tm_transitions, tm_states, tm_alphabet, tm_start,
                   tm_input, tm_tape, tm_state, tm_head, tm_steps, tm_last>>
    /\ UNCHANGED nottm

\* lines 123-139: the loop breaks at a matching transition, _simulate recurses
TMStep ==
    /\ tm_pc = "run"
    /\ ~IsAccept(tm_state)
    /\ tm_steps < MaxTMSteps
    /\ \E t \in Applicable(tm_state, tm_tape, tm_head) :
          /\ tm_tape' = write_tape(tm_tape, tm_head, t[3])
          /\ tm_state' = t[5]
          /\ tm_head' = Move(tm_head, t[4])
          /\ tm_last' = [applied |-> TRUE, transition |-> t, head |-> tm_head]
    /\ tm_steps' = tm_steps + 1
    /\ UNCHANGED <<tm_given, tm_transitions, tm_states, tm_alphabet, tm_start,
                   tm_input, tm_pc, tm_result>>
    /\ UNCHANGED nottm

\* lines 136-137: the loop ends without a match
TMReturnFalse ==
    /\ tm_pc = "run"
    /\ ~IsAccept(tm_state)
    /\ Applicable(tm_state, tm_tape, tm_head) = {}
    /\ tm_pc' = "done"
    /\ tm_result' = "False"
    /\ UNCHANGED <<tm_given, tm_transitions, tm_states, tm_alphabet, tm_start,
                   tm_input, tm_tape, tm_state, tm_head, tm_steps, tm_last>>
    /\ UNCHANGED nottm

-----------------------------------------------------------------------------
(* npda.py *)

NPDAUniverse ==
    { <<"q0", "a", "e", "x", "q0">>,
      <<"q0", "b", "x", "e", "q1">>,
      <<"q0", "a", "e", "e", "q1">>,
      <<"q0", "e", "e", "e", "q1">>,
      <<"q0", "e", "e", "x", "q0">>,
      <<"q1", "b", "x", "e", "q1">>,
      <<"q1", "e", "e", "e", "q0">>,
      <<"q1", "e", "x", "e", "q1">> }

NPDAInputs == SeqsUpTo({"a", "b"}, MaxNPDAInputLen)

\* lines 53-59 collecting the source states only
from_transitions_and_accept_states_sources(transitions) == {t[1] : t \in transitions}

\* lines 53-59: the states are the sources and destinations of the transitions
from_transitions_and_accept_states_states(transitions) ==
    {t[1] : t \in transitions} \cup {t[5] : t \in transitions}

\* lines 54-65: the alphabets are the symbols of the transitions but epsilon
from_transitions_and_accept_states_input_alphabet(transitions) ==
    {t[2] : t \in transitions} \ {"e"}

from_transitions_and_accept_states_stack_alphabet(transitions) ==
    ({t[3] : t \in transitions} \cup {t[4] : t \in transitions}) \ {"e"}

\* lines 95-98: every assert of NPDA.__init__ passes
NPDAInitOK(states, start_state, accept_states) ==
    /\ start_state \in states
    /\ accept_states \ states = {}

\* the orders in which the for loop can meet the transitions of each source state
NPDAOrders(transitions) ==
    LET sources == {t[1] : t \in transitions}
        From(q) == {t \in transitions : t[1] = q}
    IN  {o \in [sources -> UNION {Perms(From(q)) : q \in sources}] :
            \A q \in sources : o[q] \in Perms(From(q))}

RECURSIVE GraphClosure(_, _)
\* the states the edges lead to from the states of seen, and seen
GraphClosure(edges, seen) ==
    LET new == {e[2] : e \in {f \in edges : f[1] \in seen}} \ seen
    IN  IF new = {} THEN seen ELSE GraphClosure(edges, seen \cup new)

\* source and destination of every transition
TransitionGraphOf(transitions) == {<<t[1], t[5]>> : t \in transitions}

\* source and destination of every transition with epsilon as input symbol
EpsilonInputGraphOf(transitions) ==
    {<<t[1], t[5]>> : t \in {u \in transitions : u[2] = "e"}}

\* the states that lie on a cycle of the edges
OnCycle(edges) ==
    {q \in {e[1] : e \in edges} :
        q \in GraphClosure(edges, {e[2] : e \in {f \in edges : f[1] = q}})}

\* no cycle of the transition graph is made of transitions with epsilon input
\* symbol only
NoEpsilonInputCycleIn(transitions) == OnCycle(EpsilonInputGraphOf(transitions)) = {}

\* NPDA.from_transitions_and_accept_states(...) is about to be called
NPDANew ==
    /\ npda_given \in [start_state : {"q0", "q1"},
                       transitions : {T \in SUBSET NPDAUniverse :
                                          Cardinality(T) <= MaxNPDATransitions},
                       accept_states : SUBSET {"q0", "q1"}]
    /\ npda_transitions = {}
    /\ npda_states = {}
    /\ npda_input_alphabet = {}
    /\ npda_stack_alphabet = {}
    /\ npda_start = ""
    /\ npda_accept = {}
    /\ npda_order = <<>>
    /\ npda_input = <<>>
    /\ npda_stack = <<>>
    /\ npda_arg = [state |-> "", remaining_input |-> <<>>, stack |-> <<>>]
    /\ npda_pc = "new"
    /\ npda_result = "none"
    /\ npda_last = [applied |-> FALSE]

\* lines 48-105: from_transitions_and_accept_states and the constructor
NPDAConstruct ==
    /\ npda_pc = "new"
    /\ LET states == from_transitions_and_accept_states_states(npda_given.transitions)
       IN  IF NPDAInitOK(states, npda_given.start_state, npda_given.accept_states)
           THEN /\ npda_pc' = "ready"
                /\ npda_states' = states
                /\ npda_input_alphabet' =
                      from_transitions_and_accept_states_input_alphabet(npda_given.transitions)
                /\ npda_stack_alphabet' =
                      from_transitions_and_accept_states_stack_alphabet(npda_given.transitions)
                /\ npda_transitions' = npda_given.transitions
                /\ npda_start' = npda_given.start_state
                /\ npda_accept' = npda_given.accept_states
                /\ npda_order' \in NPDAOrders(npda_given.transitions)
           ELSE /\ npda_pc' = "failed"
                /\ UNCHANGED <<npda_states, npda_input_alphabet, npda_stack_alphabet,
                               npda_transitions, npda_start, npda_accept, npda_order>>
    /\ UNCHANGED <<npda_given, npda_input, npda_stack, npda_arg, npda_result, npda_last>>
    /\ UNCHANGED notnpda

\* lines 120-135 with an epsilon input symbol matched against the input like
\* any other symbol
TransitionAppliesNoEpsilonInput(transition, state, remaining_input, stack) ==
    LET source == transition[1]
        input_symbol == transition[2]
        stack_pop == transition[3]
    IN  /\ source = state
        /\ remaining_input # <<>> /\ remaining_input[1] = input_symbol
        /\ stack_pop # "e" => (stack # <<>> /\ stack[Len(stack)] = stack_pop)

\* lines 120-135: the transition gets past every continue
TransitionApplies(transition, state, remaining_input, stack) ==
    LET source == transition[1]
        input_symbol == transition[2]
        stack_pop == transition[3]
    IN  /\ source = state
        /\ input_symbol # "e" =>
              (remaining_input # <<>> /\ remaining_input[1] = input_symbol)
        /\ stack_pop # "e" => (stack # <<>> /\ stack[Len(stack)] = stack_pop)

\* lines 138-140 popping whatever the pop symbol is
NewStackAlwaysPop(transition, stack) ==
    LET popped == SubSeq(stack, 1, Len(stack) - 1)
    IN  IF transition[4] # "e" THEN Append(popped, transition[4]) ELSE popped

\* lines 138-140
NewStack(transition, stack) ==
    LET popped == IF transition[3] # "e" THEN SubSeq(stack, 1, Len(stack) - 1) ELSE stack
    IN  IF transition[4] # "e" THEN Append(popped, transition[4]) ELSE popped

\* line 143 slicing from index 2
NewInputFromTwo(transition, remaining_input) ==
    IF transition[2] # "e" THEN SubSeq(remaining_input, 3, Len(remaining_input))
    ELSE remaining_input

\* line 143
NewInput(transition, remaining_input) ==
    IF transition[2] # "e" THEN SubSeq(remaining_input, 2, Len(remaining_input))
    ELSE remaining_input

\* line 112 without the test of the remaining input
BaseCaseAnyInput(state, remaining_input) == state \in npda_accept

\* line 112
BaseCase(state, remaining_input) == state \in npda_accept /\ remaining_input = <<>>

\* line 158: accepts(string) calls _simulate(start_state, string, "")
NPDACallAccepts(string) ==
    /\ npda_input' = string
    /\ npda_arg' = [state |-> npda_start, remaining_input |-> string, stack |-> <<>>]
    /\ npda_stack = <<>>
    /\ npda_pc' = "call"
    /\ npda_result' = "none"
    /\ npda_last' = [applied |-> FALSE]
    /\ UNCHANGED <<npda_given, npda_transitions, npda_states, npda_input_alphabet,
                   npda_stack_alphabet, npda_start, npda_accept, npda_order, npda_stack>>

\* a caller calls accepts on the automaton
NPDAAccepts ==
    /\ npda_pc \in {"ready", "done"}
    /\ \E string \in NPDAInputs : NPDACallAccepts(string)
    /\ UNCHANGED notnpda

\* the arguments of the call being entered are those of a call still running
Reentered == \E i \in DOMAIN npda_stack : npda_stack[i].args = npda_arg

\* lines 112-116: a _simulate call is entered.  In the base case it returns
\* True and so does every caller.  _simulate reads only its arguments and the
\* automaton, so a call with the arguments of a call that is still running
\* makes that same call again: the recursion never returns.
NPDACall ==
    /\ npda_pc = "call"
    /\ IF BaseCase(npda_arg.state, npda_arg.remaining_input)
       THEN /\ npda_pc' = "done"
            /\ npda_result' = "True"
            /\ npda_stack' = <<>>
       ELSE IF Reentered
       THEN /\ npda_pc' = "unbounded"
            /\ UNCHANGED <<npda_result, npda_stack>>
       ELSE /\ Len(npda_stack) < MaxDepth
            /\ npda_pc' = "loop"
            /\ npda_stack' = Append(npda_stack, [args |-> npda_arg, idx |-> 1])
            /\ UNCHANGED npda_result
    /\ UNCHANGED <<npda_given, npda_transitions, npda_states, npda_input_alphabet,
                   npda_stack_alphabet, npda_start, npda_accept, npda_order, npda_input,
                   npda_arg, npda_last>>
    /\ UNCHANGED notnpda

\* the transitions the for loop of a call on args has still to meet
Remaining(frame) ==
    IF frame.args.state \in DOMAIN npda_order
    THEN SubSeq(npda_order[frame.args.state], frame.idx,
                Len(npda_order[frame.args.state]))
    ELSE <<>>

\* position in Remaining(frame) of the next transition that applies, or 0
NextApplicable(frame) ==
    LET rest == Remaining(frame)
        hits == {k \in DOMAIN rest :
                    TransitionApplies(rest[k], frame.args.state,
                                      frame.args.remaining_input, frame.args.stack)}
    IN  IF hits = {} THEN 0 ELSE CHOOSE k \in hits : \A m \in hits : k <= m

\* lines 116-146: the loop reaches an applicable transition and calls _simulate
NPDAStep ==
    /\ npda_pc = "loop"
    /\ npda_stack # <<>>
    /\ LET n == Len(npda_stack)
           top == npda_stack[n]
           k == NextApplicable(top)
           transition == Remaining(top)[k]
           new_stack == NewStack(transition, top.args.stack)
           new_input == NewInput(transition, top.args.remaining_input)
       IN  /\ k # 0
           /\ npda_arg' = [state |-> transition[5], remaining_input |-> new_input,
                           stack |-> new_stack]
           /\ npda_stack' = [npda_stack EXCEPT ![n].idx = top.idx + k]
           /\ npda_last' = [applied |-> TRUE, transition |-> transition,
                            from |-> top.args]
    /\ npda_pc' = "call"
    /\ UNCHANGED <<npda_given, npda_transitions, npda_states, npda_input_alphabet,
                   npda_stack_alphabet, npda_start, npda_accept, npda_order, npda_input,
                   npda_result>>
    /\ UNCHANGED notnpda

\* lines 116-150: the loop ends, the call returns False
NPDAReturnFalse ==
    /\ npda_pc = "loop"
    /\ npda_stack # <<>>
    /\ LET n == Len(npda_stack)
       IN  /\ NextApplicable(npda_stack[n]) = 0
           /\ npda_stack' = SubSeq(npda_stack, 1, n - 1)
           /\ IF n = 1
              THEN /\ npda_pc' = "done"
                   /\ npda_result' = "False"
              ELSE /\ npda_pc' = "loop"
                   /\ UNCHANGED npda_result
    /\ UNCHANGED <<npda_given, npda_transitions, npda_states, npda_input_alphabet,
                   npda_stack_alphabet, npda_start, npda_accept, npda_order, npda_input,
                   npda_arg, npda_last>>
    /\ UNCHANGED notnpda

-----------------------------------------------------------------------------
(* A caller that keeps its model and queries it again and again *)

SessionStrings == SeqsUpTo({"a", "b"}, MaxSessionInputLen)
SessionBounds == {0, MaxVarBound}

\* the caller notes the query that has just returned: the first one with its
\* answer, a later one as having come between the first and the next
Remember(query, answer) ==
    first_answer' =
        IF ~first_answer.asked
        THEN [asked |-> TRUE, query |-> query, answer |-> answer, between |-> FALSE]
        ELSE [first_answer EXCEPT !.between = @ \/ query # first_answer.query]

\* the caller calls generate, for the first time or after a call that returned
CFGAsk ==
    /\ cfg_pc \in {"ready", "done"}
    /\ IF cfg_pc = "done"
       THEN Remember(<<cfg_target, cfg_bound>>, cfg_result)
       ELSE UNCHANGED first_answer
    /\ UNCHANGED tests
    /\ \E string \in SessionStrings, bound \in SessionBounds : CallGenerate(string, bound)
    /\ UNCHANGED <<cfg_given, cfg_variables, cfg_terminals, cfg_rules, cfg_start,
                   cfg_order>>
    /\ UNCHANGED <<ppvars, tmvars, npdavars>>

\* the caller calls TM.accepts, for the first time or after a call that returned
TMAsk ==
    /\ tm_pc \in {"ready", "done"}
    /\ IF tm_pc = "done"
       THEN Remember(tm_input, tm_result)
       ELSE UNCHANGED first_answer
    /\ UNCHANGED tests
    /\ \E string \in SessionStrings : TMCallAccepts(string)
    /\ UNCHANGED <<cfgvars, ppvars, npdavars>>

\* the caller calls NPDA.accepts, for the first time or after a call that returned
NPDAAsk ==
    /\ npda_pc \in {"ready", "done"}
    /\ IF npda_pc = "done"
       THEN Remember(npda_input, npda_result)
       ELSE UNCHANGED first_answer
    /\ UNCHANGED tests
    /\ \E string \in SessionStrings : NPDACallAccepts(string)
    /\ UNCHANGED <<cfgvars, ppvars, tmvars>>

-----------------------------------------------------------------------------
(* perform_tests of cfg.py, tm.py and npda.py *)

TestStrings == {<<>>, <<"a">>, <<"a", "b">>, <<"S">>}

TestLists == SeqsUpTo(TestStrings, MaxTestListLen)

\* the strings of both lists in the order the two for loops meet them
TestedStrings == tests.some_strings_in_language \o tests.some_strings_not_in_language

\* the i-th string met is one of some_strings_in_language
SaidInLanguage(i) == i <= Len(tests.some_strings_in_language)

\* the report perform_tests prints for a string the engine judged otherwise
Report(i) ==
    [kind |-> IF SaidInLanguage(i) THEN "in the language but rejected"
                                   ELSE "not in the language but accepted",
     string |-> TestedStrings[i]]

AllPassed == [kind |-> "passed all the tests", string |-> <<>>]

\* the engine perform_tests is a method of
TestedEngine ==
    IF cfg_pc # "idle" THEN "CFG" ELSE IF tm_pc # "idle" THEN "TM" ELSE "NPDA"

\* the condition of the if statement after a query: the engine's verdict
EngineAccepted ==
    CASE TestedEngine = "CFG" -> Len(cfg_result) > 0
      [] TestedEngine = "TM" -> tm_result = "True"
      [] TestedEngine = "NPDA" -> npda_result = "True"

\* perform_tests is called on a constructed model; the assert on the two
\* lists passes or raises
PerformTestsCall ==
    /\ tests.pc = "idle"
    /\ \/ cfg_pc = "ready"
       \/ tm_pc = "ready"
       \/ npda_pc = "ready"
    /\ \E some_strings_in_language \in TestLists, some_strings_not_in_language \in TestLists :
          tests' = [pc |-> IF { some_strings_in_language[i] :
                                  i \in 1..Len(some_strings_in_language) }
                               \cap { some_strings_not_in_language[i] :
                                        i \in 1..Len(some_strings_not_in_language) } = {}
                            THEN "loop"
                            ELSE "raised",
                    some_strings_in_language |-> some_strings_in_language,
                    some_strings_not_in_language |-> some_strings_not_in_language,
                    index |-> 0,
                    error_found |-> FALSE,
                    printed |-> <<>>]
    /\ UNCHANGED <<cfgvars, ppvars, tmvars, npdavars, first_answer>>

\* cfg.py lines 312-315, 321-324: the loop calls generate on the next string
CFGTest ==
    /\ tests.pc = "loop"
    /\ TestedEngine = "CFG"
    /\ tests.index < Len(TestedStrings)
    /\ CallGenerate(TestedStrings[tests.index + 1], MaxVarBound)
    /\ tests' = [tests EXCEPT !.pc = "query"]
    /\ UNCHANGED <<cfg_given, cfg_variables, cfg_terminals, cfg_rules, cfg_start,
                   cfg_order>>
    /\ UNCHANGED <<ppvars, tmvars, npdavars, first_answer>>

\* tm.py lines 158-159, 164-165: the loop calls accepts on the next string
TMTest ==
    /\ tests.pc = "loop"
    /\ TestedEngine = "TM"
    /\ tests.index < Len(TestedStrings)
    /\ TMCallAccepts(TestedStrings[tests.index + 1])
    /\ tests' = [tests EXCEPT !.pc = "query"]
    /\ UNCHANGED <<cfgvars, ppvars, npdavars, first_answer>>

\* npda.py lines 173-174, 179-180: the loop calls accepts on the next string
NPDATest ==
    /\ tests.pc = "loop"
    /\ TestedEngine = "NPDA"
    /\ tests.index < Len(TestedStrings)
    /\ NPDACallAccepts(TestedStrings[tests.index + 1])
    /\ tests' = [tests EXCEPT !.pc = "query"]
    /\ UNCHANGED <<cfgvars, ppvars, tmvars, first_answer>>

\* the query has returned: a verdict against the label is printed and sets
\* error_found, and the loop goes on
PerformTestsVerdict ==
    /\ tests.pc = "query"
    /\ \/ cfg_pc = "done"
       \/ tm_pc = "done"
       \/ npda_pc = "done"
    /\ LET i == tests.index + 1
           mismatch == EngineAccepted # SaidInLanguage(i)
       IN  tests' = [tests EXCEPT !.pc = "loop",
                                  !.index = i,
                                  !.error_found = @ \/ mismatch,
                                  !.printed = IF mismatch THEN Append(@, Report(i))
                                                          ELSE @]
    /\ UNCHANGED <<cfgvars, ppvars, tmvars, npdavars, first_answer>>

\* the query has raised: nothing in perform_tests catches the exception
PerformTestsAborted ==
    /\ tests.pc = "query"
    /\ cfg_pc = "raised"
    /\ tests' = [tests EXCEPT !.pc = "aborted"]
    /\ UNCHANGED <<cfgvars, ppvars, tmvars, npdavars, first_answer>>

\* after both loops: the all-passed message unless error_found
PerformTestsEnd ==
    /\ tests.pc = "loop"
    /\ tests.index = Len(TestedStrings)
    /\ tests' = [tests EXCEPT !.pc = "done",
                              !.printed = IF tests.error_found THEN @
                                                               ELSE Append(@, AllPassed)]
    /\ UNCHANGED <<cfgvars, ppvars, tmvars, npdavars, first_answer>>

-----------------------------------------------------------------------------
(* Specifications: one per engine; the interpreter runs a started call on *)

InitCFG == CFGQuery /\ PPIdle /\ TMIdle /\ NPDAIdle /\ CallerIdle

NextCFG == CFGCall \/ CFGNextRule \/ CFGExhausted

SpecCFG == InitCFG /\ [][NextCFG]_vars /\ WF_vars(NextCFG)

InitCFGNew == CFGNew /\ PPIdle /\ TMIdle /\ NPDAIdle /\ CallerIdle

NextCFGNew ==
    CFGConstruct \/ CFGGenerate \/ CFGDerive \/ CFGCall \/ CFGNextRule \/ CFGExhausted

SpecCFGNew == InitCFGNew /\ [][NextCFGNew]_vars /\ WF_vars(NextCFGNew)

InitPP == PPStart /\ CFGIdle /\ TMIdle /\ NPDAIdle /\ CallerIdle

NextPP == PrettyPrint \/ PrintAgain

SpecPP == InitPP /\ [][NextPP]_vars /\ WF_vars(NextPP)

InitTM == TMNew /\ CFGIdle /\ PPIdle /\ NPDAIdle /\ CallerIdle

NextTM == TMConstruct \/ TMAccepts \/ TMReturnTrue \/ TMStep \/ TMReturnFalse

SpecTM == InitTM /\ [][NextTM]_vars /\ WF_vars(NextTM)

InitNPDA == NPDANew /\ CFGIdle /\ PPIdle /\ TMIdle /\ CallerIdle

NextNPDA == NPDAConstruct \/ NPDAAccepts \/ NPDACall \/ NPDAStep \/ NPDAReturnFalse

SpecNPDA == InitNPDA /\ [][NextNPDA]_vars /\ WF_vars(NextNPDA)

\* the automata without a cycle of transitions with epsilon input symbol
InitNPDAAcyclic == InitNPDA /\ NoEpsilonInputCycleIn(npda_given.transitions)

SpecNPDAAcyclic == InitNPDAAcyclic /\ [][NextNPDA]_vars /\ WF_vars(NextNPDA)

\* a caller builds one model, of any of the three engines, and queries it
InitSession ==
    /\ CallerIdle
    /\ PPIdle
    /\ \/ CFGNew /\ TMIdle /\ NPDAIdle
       \/ /\ TMNew
          /\ tm_given.entry = "from_transitions"
          /\ Cardinality(tm_given.transitions) <= MaxSessionTransitions
          /\ CFGIdle /\ NPDAIdle
       \/ /\ NPDANew
          /\ Cardinality(npda_given.transitions) <= MaxSessionTransitions
          /\ CFGIdle /\ TMIdle

NextSession ==
    \/ CFGConstruct \/ CFGAsk \/ CFGCall \/ CFGNextRule \/ CFGExhausted
    \/ TMConstruct \/ TMAsk \/ TMReturnTrue \/ TMStep \/ TMReturnFalse
    \/ NPDAConstruct \/ NPDAAsk \/ NPDACall \/ NPDAStep \/ NPDAReturnFalse

SpecSession == InitSession /\ [][NextSession]_vars /\ WF_vars(NextSession)

\* a caller builds one model, of any of the three engines, and has it test itself
InitTests ==
    /\ CallerIdle
    /\ PPIdle
    /\ \/ CFGNew /\ TMIdle /\ NPDAIdle
       \/ /\ TMNew
          /\ tm_given.entry = "from_transitions"
          /\ Cardinality(tm_given.transitions) <= MaxSessionTransitions
          /\ CFGIdle /\ NPDAIdle
       \/ NPDANew /\ CFGIdle /\ TMIdle

NextTests ==
    \/ CFGConstruct \/ TMConstruct \/ NPDAConstruct
    \/ PerformTestsCall \/ CFGTest \/ TMTest \/ NPDATest
    \/ PerformTestsVerdict \/ PerformTestsAborted \/ PerformTestsEnd
    \/ CFGCall \/ CFGNextRule \/ CFGExhausted
    \/ TMReturnTrue \/ TMStep \/ TMReturnFalse
    \/ NPDACall \/ NPDAStep \/ NPDAReturnFalse

SpecTests == InitTests /\ [][NextTests]_vars /\ WF_vars(NextTests)

-----------------------------------------------------------------------------
(* Claims about the derivation search *)

\* y is x with its leftmost variable occurrence replaced by the right-hand side
\* of a rule for that variable; the epsilon symbol of a right-hand side stands
\* for the empty string
LeftmostStep(x, y, rules) ==
    \E i \in DOMAIN x :
        /\ x[i] \in Upper
        /\ \A j \in 1..(i - 1) : x[j] \notin Upper
        /\ \E r \in rules :
              /\ r[1] = x[i]
              /\ y = SubSeq(x, 1, i - 1) \o StripE(r[2]) \o SubSeq(x, i + 1, Len(x))

\* C1: a non-empty result of generate starts at the start variable, ends at the
\* target, and each consecutive pair is one leftmost rule application.
C1_Soundness ==
    (cfg_pc = "done" /\ cfg_result # <<>>) =>
        /\ cfg_result[1] = <<cfg_start>>
        /\ cfg_result[Len(cfg_result)] = cfg_target
        /\ \A k \in 1..(Len(cfg_result) - 1) :
              LeftmostStep(cfg_result[k], cfg_result[k + 1], cfg_rules)

\* a derivation of several steps that used an epsilon rule was returned
C1_Witness ==
    /\ cfg_pc = "done"
    /\ Len(cfg_result) >= 4
    /\ \E k \in 1..(Len(cfg_result) - 1) : Len(cfg_result[k + 1]) < Len(cfg_result[k])

NumVariables(x) == Cardinality({i \in DOMAIN x : x[i] \in Upper})
NumTerminals(x) == Cardinality({i \in DOMAIN x : x[i] \notin Upper /\ x[i] # "e"})

\* strings with at most b variable occurrences; a string with more terminals
\* than s derives no s (a rule application removes no terminal), so leaving
\* those out changes no answer and keeps the set finite
Admissible(x, s, b) == NumVariables(x) <= b /\ NumTerminals(x) <= Len(s)

LeftmostSuccessors(x, rules) ==
    {y \in UNION {{SubSeq(x, 1, i - 1) \o StripE(r[2]) \o SubSeq(x, i + 1, Len(x)) :
                      r \in rules} : i \in DOMAIN x} : LeftmostStep(x, y, rules)}

RECURSIVE LeftmostClosure(_, _, _, _, _)
LeftmostClosure(seen, frontier, rules, s, b) ==
    IF frontier = {} THEN seen
    ELSE LET new == {y \in UNION {LeftmostSuccessors(x, rules) : x \in frontier} :
                        Admissible(y, s, b)} \ seen
         IN  LeftmostClosure(seen \cup new, new, rules, s, b)

\* some leftmost derivation of s from start keeps every string within b variables
BoundedDerivable(rules, start, s, b) ==
    /\ Admissible(<<start>>, s, b)
    /\ s \in LeftmostClosure({<<start>>}, {<<start>>}, rules, s, b)

\* C2: generate(s, b) returns a non-empty list exactly when s has a leftmost
\* derivation from the start variable whose strings all have at most b
\* variable occurrences.
C2_Exactness ==
    cfg_pc = "done" =>
        ((cfg_result # <<>>) <=> BoundedDerivable(cfg_rules, cfg_start, cfg_target, cfg_bound))

\* the bound decided the answer: nothing returned, derivable with one more variable
C2_Witness ==
    /\ cfg_pc = "done"
    /\ cfg_result = <<>>
    /\ cfg_bound >= 1
    /\ BoundedDerivable(cfg_rules, cfg_start, cfg_target, cfg_bound + 1)

C17_StripBeforeVisited ==
    (cfg_pc = "call" /\ \E p \in cfg_pool : StripE(p) = StripE(cfg_arg)) =>
        Prologue(cfg_arg) = "visited"

\* C18: a rule is applied only to a string with at most cfg_bound variable
\* occurrences and at most len(target) terminal occurrences, a string with
\* exactly cfg_bound variables is still expanded, and every string of a
\* returned derivation is within both limits.
C18_PruningBounds ==
    /\ [](\A i \in DOMAIN cfg_stack :
              /\ NumVariables(cfg_stack[i].cur) <= cfg_bound
              /\ NumTerminals(cfg_stack[i].cur) <= Len(cfg_target))
    /\ [](cfg_pc = "done" =>
              \A k \in DOMAIN cfg_result :
                  /\ NumVariables(cfg_result[k]) <= cfg_bound
                  /\ NumTerminals(cfg_result[k]) <= Len(cfg_target))
    /\ [][(/\ cfg_pc = "call"
           /\ cfg_arg \notin cfg_pool
           /\ NumVariables(cfg_arg) = cfg_bound
           /\ cfg_bound > 0
           /\ NumTerminals(cfg_arg) <= Len(cfg_target))
              => cfg_stack' = Append(cfg_stack, [cur |-> StripE(cfg_arg), idx |-> 1])]_vars

\* a returned derivation went through a string with exactly cfg_bound = 2 variables
C18_Witness ==
    /\ cfg_pc = "done"
    /\ cfg_bound = 2
    /\ \E k \in DOMAIN cfg_result : NumVariables(cfg_result[k]) = cfg_bound
    /\ \E k \in DOMAIN cfg_result : NumTerminals(cfg_result[k]) = Len(cfg_target)

NoEpsilonRules(rules) == \A r \in rules : \A i \in DOMAIN r[2] : r[2][i] # "e"

\* C19: for a grammar without epsilon rules, the number of terminal
\* occurrences never decreases from one string of a returned derivation to
\* the next.
C19_TerminalMonotonicity ==
    (cfg_pc = "done" /\ NoEpsilonRules(cfg_rules)) =>
        \A k \in 1..(Len(cfg_result) - 1) :
            NumTerminals(cfg_result[k]) <= NumTerminals(cfg_result[k + 1])

\* a derivation without epsilon rules with a step that adds a terminal and a
\* step that adds none
C19_Witness ==
    /\ cfg_pc = "done"
    /\ NoEpsilonRules(cfg_rules)
    /\ Len(cfg_result) >= 4
    /\ \E k \in 1..(Len(cfg_result) - 1) :
          NumTerminals(cfg_result[k]) < NumTerminals(cfg_result[k + 1])
    /\ \E k \in 1..(Len(cfg_result) - 1) :
          NumTerminals(cfg_result[k]) = NumTerminals(cfg_result[k + 1])

IsLhs(v, rules) == \E r \in rules : r[1] = v

OccursIn(v, rules) == \E r \in rules : r[1] = v \/ \E i \in DOMAIN r[2] : r[2][i] = v

\* C12: from_rules followed by the constructor succeeds only if the start
\* variable is a variable, no variable is a terminal, every right-hand-side
\* symbol is a variable, a terminal or epsilon, and every variable, also one
\* that occurs only on a right-hand side, is the left-hand side of a rule; when
\* construction fails there is no grammar object.
C12_ConstructionValidation ==
    /\ cfg_pc \notin {"idle", "new", "failed"} =>
          LET rules == cfg_given.rules
              start == cfg_given.start_variable
          IN  /\ start \in Upper /\ IsLhs(start, rules)
              /\ \A r \in rules : r[1] \in Upper
              /\ \A r \in rules : \A i \in DOMAIN r[2] :
                    r[2][i] \in Upper \cup Lower \cup Digit
              /\ \A v \in Upper : OccursIn(v, rules) => IsLhs(v, rules)
              /\ cfg_rules = rules
              /\ cfg_start = start
              /\ cfg_variables = {v \in Upper : IsLhs(v, rules)}
              /\ cfg_variables \cap cfg_terminals = {}
    /\ cfg_pc = "failed" =>
          /\ cfg_rules = {} /\ cfg_variables = {} /\ cfg_terminals = {}
          /\ cfg_start = "" /\ cfg_order = <<>>
          /\ cfg_call.method = ""

\* construction failed and the only fault is a variable that occurs on a
\* right-hand side and has no rule
C12_Witness ==
    /\ cfg_pc = "failed"
    /\ IsLhs(cfg_given.start_variable, cfg_given.rules)
    /\ \A r \in cfg_given.rules :
          /\ r[1] \in Upper
          /\ \A i \in DOMAIN r[2] : r[2][i] \in Upper \cup Lower \cup Digit
    /\ \E v \in Upper : OccursIn(v, cfg_given.rules) /\ ~IsLhs(v, cfg_given.rules)

WellFormedTarget(string) ==
    \A i \in DOMAIN string : string[i] \in (Lower \cup Digit) \ {"e"}

\* generate or derive has been called on the grammar
Called == cfg_pc \in {"call", "loop", "done", "raised"}

\* C16 as stated: generate and derive raise whenever the target has an
\* uppercase letter, the epsilon symbol or a character that is no lowercase
\* letter and no digit, and never raise on a well-formed target.
C16_RaiseOnlyOnTarget ==
    /\ (Called /\ ~WellFormedTarget(cfg_target)) => cfg_pc = "raised"
    /\ (Called /\ WellFormedTarget(cfg_target)) => cfg_pc # "raised"

\* the current string is made of variables of the grammar and terminal characters
CurrentOfGrammar(current_string) ==
    \A i \in DOMAIN current_string :
        current_string[i] \in cfg_variables \cup ((Lower \cup Digit) \ {"e"})

\* C16 amended: generate and derive raise whenever the target is not
\* well-formed; on a well-formed target generate never raises, and derive
\* never raises when its current string is made of variables of the grammar
\* and terminal characters: the call returns a derivation of the target or
\* the empty list.
C16_ErrorsVersusEmpty ==
    /\ (Called /\ ~WellFormedTarget(cfg_target)) => cfg_pc = "raised"
    /\ (/\ Called
        /\ WellFormedTarget(cfg_target)
        /\ cfg_call.method = "generate" \/ CurrentOfGrammar(cfg_call.current_string))
          => /\ cfg_pc # "raised"
             /\ cfg_pc = "done" =>
                   (cfg_result = <<>> \/ cfg_result[Len(cfg_result)] = cfg_target)

\* derive searched from a current string of its caller and returned the empty list
C16_Witness ==
    /\ cfg_pc = "done"
    /\ cfg_call.method = "derive"
    /\ cfg_call.current_string # <<cfg_start>>
    /\ WellFormedTarget(cfg_target)
    /\ cfg_result = <<>>
    /\ Cardinality(cfg_pool) >= 3

-----------------------------------------------------------------------------
(* Claims about derivation compression *)

NoRepeat(list) == \A i, j \in DOMAIN list : list[i] = list[j] => i = j

\* a is d with some elements left out
IsSubsequence(a, d) ==
    \E f \in [DOMAIN a -> DOMAIN d] :
        /\ \A i \in DOMAIN a : a[i] = d[f[i]]
        /\ \A i, j \in DOMAIN a : i < j => f[i] < f[j]

IsConsecutivePair(x, y, d) == \E k \in 1..(Len(d) - 1) : d[k] = x /\ d[k + 1] = y

\* C9: for a non-empty derivation d, minimize=True prints a list without
\* repeated strings that is a subsequence of d, starts and ends as d does, and
\* whose consecutive pairs are consecutive pairs of d.
C9_Compression ==
    (pp_pc = "printed" /\ pp_minimize /\ pp_derivation # <<>>) =>
        /\ pp_printed.message = ""
        /\ pp_printed.list # <<>>
        /\ NoRepeat(pp_printed.list)
        /\ IsSubsequence(pp_printed.list, pp_derivation)
        /\ pp_printed.list[1] = pp_derivation[1]
        /\ pp_printed.list[Len(pp_printed.list)] = pp_derivation[Len(pp_derivation)]
        /\ \A k \in 1..(Len(pp_printed.list) - 1) :
              IsConsecutivePair(pp_printed.list[k], pp_printed.list[k + 1], pp_derivation)

\* A -> x -> B -> x -> C was printed as A -> x -> C
C9_Witness ==
    /\ pp_pc = "printed"
    /\ pp_minimize
    /\ Len(pp_derivation) = 5
    /\ pp_derivation[2] = pp_derivation[4]
    /\ NoRepeat(SubSeq(pp_derivation, 1, 3))
    /\ Len(pp_printed.list) = 3

\* C10: minimize=True prints a derivation without repeated strings unchanged,
\* and prints the output of a minimizing call unchanged.
C10_Idempotence ==
    (pp_pc = "printed" /\ pp_minimize /\ pp_derivation # <<>>) =>
        /\ NoRepeat(pp_derivation) => pp_printed.list = pp_derivation
        /\ pp_compressed => pp_printed.list = pp_derivation

\* the output of a call that removed a loop went through a second minimizing call
C10_Witness ==
    /\ pp_pc = "printed"
    /\ pp_minimize
    /\ pp_compressed
    /\ pp_round = 2
    /\ Len(pp_derivation) >= 3
    /\ pp_printed.list = pp_derivation

-----------------------------------------------------------------------------
(* Claims about the Turing machine *)

\* cells of the reference tape: enough for an input and every step of a run
TapeCells == MaxTMInputLen + MaxTMSteps + 1

\* a tape as a total function on cells, blank where nothing was written
AsCells(tape) == [i \in 0..TapeCells |-> IF i < Len(tape) THEN tape[i + 1] ELSE "."]

\* the transition of the machine for a (state, symbol) pair, if there is one
Delta(state, symbol) == {t \in tm_transitions : t[1] = state /\ t[2] = symbol}

Halted(c) ==
    IF c.state = "accept" THEN "accept"
    ELSE IF Delta(c.state, c.cells[c.head]) = {} THEN "reject"
    ELSE "running"

\* one step of the deterministic step relation; a halted configuration stays
StepRelation(c) ==
    IF Halted(c) # "running" THEN c
    ELSE LET t == CHOOSE t \in Delta(c.state, c.cells[c.head]) : TRUE
         IN  [state |-> t[5],
              head |-> IF t[4] = "r" THEN c.head + 1
                       ELSE IF c.head = 0 THEN 0 ELSE c.head - 1,
              cells |-> [c.cells EXCEPT ![c.head] = t[3]]]

RECURSIVE RunAfter(_, _)
RunAfter(c, k) == IF k = 0 THEN c ELSE RunAfter(StepRelation(c), k - 1)

StartConfiguration == [state |-> tm_start, head |-> 0, cells |-> AsCells(tm_input)]

\* C5: a query starts in the start state at cell 0 on the input, follows the
\* deterministic step relation, returns True exactly when that run is in
\* "accept" and False exactly when it is in a non-accept configuration with
\* no transition.
C5_Acceptance ==
    /\ (tm_pc = "run" /\ tm_steps = 0) =>
          (tm_state = tm_start /\ tm_head = 0 /\ tm_tape = tm_input)
    /\ tm_pc \in {"run", "done"} =>
          LET c == RunAfter(StartConfiguration, tm_steps)
          IN  /\ c = [state |-> tm_state, head |-> tm_head, cells |-> AsCells(tm_tape)]
              /\ \A k \in 0..(tm_steps - 1) :
                    Halted(RunAfter(StartConfiguration, k)) = "running"
              /\ tm_pc = "done" =>
                    /\ tm_result = "True" <=> Halted(c) = "accept"
                    /\ tm_result = "False" <=> Halted(c) = "reject"

\* a query that crossed its whole input and wrote past its end was accepted
C5_Witness ==
    /\ tm_pc = "done"
    /\ tm_result = "True"
    /\ tm_steps >= 3
    /\ tm_last.transition[4] = "r"
    /\ Len(tm_tape) > Len(tm_input)

HasConflict(transitions) ==
    \E t1, t2 \in transitions : t1 # t2 /\ t1[1] = t2[1] /\ t1[2] = t2[2]

\* C6: construction fails when two distinct transitions share (source state,
\* read symbol); so a constructed machine has at most one applicable
\* transition in every configuration of a run, whatever the iteration order.
C6_Determinism ==
    /\ (tm_pc # "new" /\ HasConflict(tm_given.transitions)) => tm_pc = "failed"
    /\ tm_pc \in {"ready", "run", "done"} =>
          /\ ~HasConflict(tm_transitions)
          /\ Cardinality(Applicable(tm_state, tm_tape, tm_head)) <= 1

\* a set whose only fault is a shared (source state, read symbol) was rejected
C6_Witness ==
    /\ tm_pc = "failed"
    /\ HasConflict(tm_given.transitions)
    /\ \E t \in tm_given.transitions :
          TMInitOK(from_transitions_states(tm_given.transitions),
                   from_transitions_alphabet(tm_given.transitions),
                   tm_given.transitions \ {t}, tm_given.start_state)

\* C7: the head index is never negative; a left move at cell 0 writes the
\* transition's symbol to cell 0, enters its destination state and leaves
\* the head at cell 0.
C7_HeadClamp ==
    /\ tm_head >= 0
    /\ (tm_last.applied /\ tm_last.transition[4] = "l" /\ tm_last.head = 0) =>
          /\ tm_head = 0
          /\ tm_tape[1] = tm_last.transition[3]
          /\ tm_state = tm_last.transition[5]

\* a left move at cell 0 that changed the symbol of cell 0
C7_Witness ==
    /\ tm_pc = "run"
    /\ tm_last.applied
    /\ tm_last.transition[4] = "l"
    /\ tm_last.head = 0
    /\ tm_last.transition[2] # tm_last.transition[3]

\* the states and symbols a call hands to the checks of the constructor
PassedStates ==
    IF tm_given.entry = "TM" THEN tm_given.states_except_reject_state
    ELSE {q \in TMStartStates : \E t \in tm_given.transitions : q = t[1] \/ q = t[5]}

PassedAlphabet ==
    IF tm_given.entry = "TM" THEN tm_given.tape_alphabet
    ELSE {x \in TMSymbols : \E t \in tm_given.transitions : x = t[2] \/ x = t[3]}

\* C13: construction fails unless the tape alphabet contains '.', "accept" and
\* the start state are among the states, and every transition has its source
\* and destination among the states, its read and write symbols in the
\* alphabet and direction 'l' or 'r'; from_transitions rejects a transition
\* set in which no transition reads or writes '.' or none mentions "accept".
C13_Validation ==
    /\ tm_pc \in {"ready", "run", "done"} =>
          /\ "." \in PassedAlphabet
          /\ "accept" \in PassedStates
          /\ tm_given.start_state \in PassedStates
          /\ \A t \in tm_given.transitions :
                /\ t[1] \in PassedStates
                /\ t[5] \in PassedStates
                /\ t[2] \in PassedAlphabet
                /\ t[3] \in PassedAlphabet
                /\ t[4] \in {"l", "r"}
          /\ tm_states = PassedStates
          /\ tm_alphabet = PassedAlphabet
    /\ (/\ tm_pc \notin {"idle", "new"}
        /\ tm_given.entry = "from_transitions"
        /\ \/ \A t \in tm_given.transitions : t[2] # "." /\ t[3] # "."
           \/ \A t \in tm_given.transitions : t[1] # "accept" /\ t[5] # "accept")
          => tm_pc = "failed"

\* from_transitions rejected a set whose only fault is that no transition
\* mentions "accept"
C13_Witness ==
    /\ tm_pc = "failed"
    /\ tm_given.entry = "from_transitions"
    /\ tm_given.transitions # {}
    /\ "accept" \notin PassedStates
    /\ "." \in PassedAlphabet
    /\ tm_given.start_state \in PassedStates
    /\ ~HasConflict(tm_given.transitions)
    /\ \A t \in tm_given.transitions : t[4] \in {"l", "r"}

-----------------------------------------------------------------------------
(* Claims about the pushdown automaton *)

\* the word an entry of a transition stands for: epsilon is the empty word
Word(symbol) == IF symbol = "e" THEN <<>> ELSE <<symbol>>

\* (p, a w, g u) |- (q, w, g v) by a transition (p, a, u, v, q)
Yields(c, t, d) ==
    LET a == Word(t[2])
        u == Word(t[3])
        v == Word(t[4])
    IN  /\ c.state = t[1]
        /\ Len(a) <= Len(c.remaining_input)
        /\ SubSeq(c.remaining_input, 1, Len(a)) = a
        /\ Len(u) <= Len(c.stack)
        /\ SubSeq(c.stack, Len(c.stack) - Len(u) + 1, Len(c.stack)) = u
        /\ d.state = t[5]
        /\ d.remaining_input = SubSeq(c.remaining_input, Len(a) + 1, Len(c.remaining_input))
        /\ d.stack = SubSeq(c.stack, 1, Len(c.stack) - Len(u)) \o v

\* configurations over the suffixes of the input and the stacks a search of
\* depth MaxDepth can build
Configurations ==
    [state : npda_states,
     remaining_input : {SubSeq(npda_input, i, Len(npda_input)) :
                           i \in 1..(Len(npda_input) + 1)},
     stack : SeqsUpTo({"x"}, MaxDepth)]

RECURSIVE YieldsClosure(_, _)
YieldsClosure(seen, frontier) ==
    IF frontier = {} THEN seen
    ELSE LET new == {d \in Configurations :
                        \E c \in frontier, t \in npda_transitions : Yields(c, t, d)} \ seen
         IN  YieldsClosure(seen \cup new, new)

StartOfRun == [state |-> npda_start, remaining_input |-> npda_input, stack |-> <<>>]

\* some sequence of applicable transitions from the start configuration ends
\* in an accept state with no input left
AcceptingRunExists ==
    \E c \in YieldsClosure({StartOfRun}, {StartOfRun}) :
        c.state \in npda_accept /\ c.remaining_input = <<>>

\* C4: accepts(string) returns True exactly when some sequence of applicable
\* transitions from (start state, string, empty stack) reaches an accept
\* state with no input left: the call returns, with that verdict, and is never
\* caught in unbounded recursion while such a sequence exists.
C4_Acceptance ==
    /\ npda_pc = "done" => (npda_result = "True" <=> AcceptingRunExists)
    /\ npda_pc = "unbounded" => ~AcceptingRunExists

\* whenever accepts returns, its verdict is that of the acceptance contract
C4_VerdictWhenReturned ==
    npda_pc = "done" => (npda_result = "True" <=> AcceptingRunExists)

Size(remaining_input, stack) == Len(remaining_input) + Len(stack)

\* the change of len(remaining input) + len(stack) made by the last transition
LastSizeChange ==
    Size(npda_arg.remaining_input, npda_arg.stack)
        - Size(npda_last.from.remaining_input, npda_last.from.stack)

\* C8 as stated: an applied transition changes len(remaining input) +
\* len(stack) by at most 1.
C8_SizeChangeAtMostOne ==
    (npda_pc = "call" /\ npda_last.applied) => LastSizeChange \in -1..1

\* C8 amended: an applied transition changes len(remaining input) +
\* len(stack) by at most 2: it lowers it by at most 2 (a consumed symbol and a
\* pop) and raises it by at most 1 (a push).
C8_SizeChange ==
    (npda_pc = "call" /\ npda_last.applied) => LastSizeChange \in -2..1

\* a transition that consumed a symbol and popped without pushing
C8_Witness ==
    /\ npda_pc = "call"
    /\ npda_last.applied
    /\ LastSizeChange = -2

\* the states some transition of the set has as its source or its destination
Mentioned(transitions) == {q \in {"q0", "q1"} : \E t \in transitions : q = t[1] \/ q = t[5]}

\* C14 as stated: the state set is the projection over the transitions together
\* with the declared start state and accept states, so construction succeeds
\* for every start state, transition set and accept-state set.
C14_StatesIncludeDeclared ==
    npda_pc \notin {"idle", "new"} =>
        /\ npda_pc # "failed"
        /\ npda_states = Mentioned(npda_given.transitions)
                             \cup {npda_given.start_state} \cup npda_given.accept_states
        /\ npda_start \in npda_states
        /\ npda_accept \subseteq npda_states

\* C14 amended: the state set is the projection over the transitions alone;
\* construction succeeds exactly when the declared start state and every
\* declared accept state occur in some transition, and then the automaton has
\* the declared start and accept states, all of them in its state set.
C14_StateInference ==
    npda_pc \notin {"idle", "new"} =>
        IF /\ npda_given.start_state \in Mentioned(npda_given.transitions)
           /\ npda_given.accept_states \subseteq Mentioned(npda_given.transitions)
        THEN /\ npda_pc # "failed"
             /\ npda_states = Mentioned(npda_given.transitions)
             /\ npda_start = npda_given.start_state
             /\ npda_accept = npda_given.accept_states
             /\ npda_start \in npda_states
             /\ npda_accept \subseteq npda_states
        ELSE npda_pc = "failed"

\* construction failed only because a declared accept state is in no transition
C14_Witness ==
    /\ npda_pc = "failed"
    /\ npda_given.start_state \in Mentioned(npda_given.transitions)
    /\ npda_given.accept_states \ Mentioned(npda_given.transitions) # {}

IsSuffix(w, string) == \E i \in 1..(Len(string) + 1) : w = SubSeq(string, i, Len(string))

\* C20: an applied transition removes the top stack symbol only when its pop
\* symbol is not epsilon and equals the top, then puts at most one symbol on
\* top, and leaves the cells below unchanged; it removes the first remaining
\* input symbol when its input symbol is not epsilon and leaves the input
\* unchanged otherwise; every remaining input is a suffix of the input.
C20_StepFrame ==
    /\ (npda_pc = "call" /\ npda_last.applied) =>
          LET before == npda_last.from
              transition == npda_last.transition
              kept == IF transition[3] = "e" THEN Len(before.stack)
                                             ELSE Len(before.stack) - 1
          IN  /\ kept >= 0
              /\ transition[3] # "e" => before.stack[Len(before.stack)] = transition[3]
              /\ \A i \in 1..kept : npda_arg.stack[i] = before.stack[i]
              /\ Len(npda_arg.stack) = kept + (IF transition[4] = "e" THEN 0 ELSE 1)
              /\ transition[4] # "e" => npda_arg.stack[kept + 1] = transition[4]
              /\ transition[2] # "e" =>
                    /\ before.remaining_input # <<>>
                    /\ before.remaining_input[1] = transition[2]
                    /\ npda_arg.remaining_input = Tail(before.remaining_input)
              /\ transition[2] = "e" => npda_arg.remaining_input = before.remaining_input
              /\ npda_arg.state = transition[5]
    /\ npda_pc \in {"call", "loop", "unbounded"} =>
          /\ IsSuffix(npda_arg.remaining_input, npda_input)
          /\ \A i \in DOMAIN npda_stack :
                IsSuffix(npda_stack[i].args.remaining_input, npda_input)

\* a transition that consumed a symbol and popped the top of a stack of two
\* or more symbols
C20_Witness ==
    /\ npda_pc = "call"
    /\ npda_last.applied
    /\ npda_last.transition[2] # "e"
    /\ npda_last.transition[3] # "e"
    /\ Len(npda_last.from.stack) >= 2
    /\ Len(npda_arg.stack) = Len(npda_last.from.stack) - 1

-----------------------------------------------------------------------------
(* Claims about all three engines *)

\* C15: a query leaves every field of the model unchanged, and a query that
\* returns gives the answer the first query on the same input gave, whatever
\* queries came between them.
C15_QueryIndependence ==
    /\ [][/\ cfg_pc \notin {"idle", "new"} =>
               UNCHANGED <<cfg_variables, cfg_terminals, cfg_rules, cfg_start>>
          /\ tm_pc \notin {"idle", "new"} =>
               UNCHANGED <<tm_states, tm_alphabet, tm_transitions, tm_start>>
          /\ npda_pc \notin {"idle", "new"} =>
               UNCHANGED <<npda_states, npda_input_alphabet, npda_stack_alphabet,
                           npda_transitions, npda_start, npda_accept>>]_vars
    /\ []((cfg_pc = "done" /\ first_answer.asked
              /\ first_answer.query = <<cfg_target, cfg_bound>>)
             => cfg_result = first_answer.answer)
    /\ []((tm_pc = "done" /\ first_answer.asked /\ first_answer.query = tm_input)
             => tm_result = first_answer.answer)
    /\ []((npda_pc = "done" /\ first_answer.asked /\ first_answer.query = npda_input)
             => npda_result = first_answer.answer)

\* generate returned a derivation of several steps for the second time, after
\* a query for something else
C15_Witness ==
    /\ cfg_pc = "done"
    /\ first_answer.asked
    /\ first_answer.between
    /\ first_answer.query = <<cfg_target, cfg_bound>>
    /\ Len(cfg_result) >= 3
    /\ Cardinality(cfg_pool) >= 4

\* C11: perform_tests called with disjoint lists queries every listed string,
\* one after the other and to the end, whatever the verdicts: no query raises
\* out of it or recurses without bound under it; it prints a report for each
\* string whose verdict disagrees with its label, and the all-passed message
\* exactly when none disagreed.
C11_SelfTestCompleteness ==
    /\ [](tests.pc # "aborted")
    /\ [](tests.pc = "query" => npda_pc # "unbounded")
    /\ [][(tests.pc # "query" /\ tests'.pc = "query") =>
            /\ tests.pc = "loop"
            /\ LET string == TestedStrings[tests.index + 1]
               IN  CASE TestedEngine = "CFG" -> cfg_target' = string
                     [] TestedEngine = "TM" -> tm_input' = string
                     [] TestedEngine = "NPDA" -> npda_input' = string]_vars
    /\ [][(tests.pc = "query" /\ tests'.pc = "loop") =>
            /\ tests'.index = tests.index + 1
            /\ tests'.printed =
                 IF EngineAccepted # SaidInLanguage(tests'.index)
                 THEN Append(tests.printed, Report(tests'.index))
                 ELSE tests.printed]_vars
    /\ [](tests.pc = "done" =>
            /\ tests.index = Len(TestedStrings)
            /\ LET reports == {i \in 1..Len(tests.printed) : tests.printed[i] # AllPassed}
               IN  /\ (reports = {}) <=>
                        (tests.printed # <<>>
                           /\ tests.printed[Len(tests.printed)] = AllPassed)
                   /\ \A i \in 1..Len(tests.printed) :
                        tests.printed[i] = AllPassed => i = Len(tests.printed))

\* a perform_tests that ends has queried every string in turn and printed
\* exactly the reports and the message the claim asks for
C11_ReportsWhenCompleted ==
    /\ [][(tests.pc # "query" /\ tests'.pc = "query") =>
            /\ tests.pc = "loop"
            /\ TestedStrings[tests.index + 1] \in {cfg_target', tm_input', npda_input'}]_vars
    /\ [][(tests.pc = "query" /\ tests'.pc = "loop") =>
            /\ tests'.index = tests.index + 1
            /\ tests'.printed =
                 IF EngineAccepted # SaidInLanguage(tests'.index)
                 THEN Append(tests.printed, Report(tests'.index))
                 ELSE tests.printed]_vars
    /\ [](tests.pc = "done" =>
            /\ tests.index = Len(TestedStrings)
            /\ (tests.printed # <<>> /\ tests.printed[Len(tests.printed)] = AllPassed)
                 <=> ~tests.error_found)

\* perform_tests of an NPDA is inside a query that recurses without bound
\* although a sequence of transitions accepts the string
C11_StuckInQuery ==
    /\ tests.pc = "query"
    /\ npda_pc = "unbounded"
    /\ AcceptingRunExists
    /\ tests.index < Len(TestedStrings)

-----------------------------------------------------------------------------
(* Claims about runs of the pushdown automaton that do not end *)

\* the configurations one or more applicable transitions lead to from c
ReachedFrom(c) ==
    LET first == {d \in Configurations : \E t \in npda_transitions : Yields(c, t, d)}
    IN  YieldsClosure(first, first)

\* a configuration the input leads to that some applicable transitions bring
\* back to itself: none of them consumes input, together they leave the stack
RepeatableConfiguration ==
    \E c \in YieldsClosure({StartOfRun}, {StartOfRun}) : c \in ReachedFrom(c)

\* a state on a cycle of transitions with epsilon input symbol, which
\* transitions lead to from the start state and lead from to no accept state
EpsilonCycleInGraph ==
    \E q \in OnCycle(EpsilonInputGraphOf(npda_transitions)) :
        /\ q \in GraphClosure(TransitionGraphOf(npda_transitions), {npda_start})
        /\ GraphClosure(TransitionGraphOf(npda_transitions), {q}) \cap npda_accept = {}

\* C21 as stated: accepts never returns on an automaton with a cycle of
\* transitions with epsilon input symbol that the start state leads to and
\* that leads to no accept state.
C21_GraphCycleDiverges ==
    npda_pc = "done" => ~EpsilonCycleInGraph

\* C21 amended: accepts never returns on an input from which no accepting
\* configuration is reached and which leads to a configuration that
\* applicable transitions bring back to itself.
C21_EpsilonCycleDivergence ==
    npda_pc = "done" => ~(~AcceptingRunExists /\ RepeatableConfiguration)

\* the search has entered the configuration of a call still running, on an
\* input no sequence of transitions accepts
C21_Witness ==
    /\ npda_pc = "unbounded"
    /\ RepeatableConfiguration
    /\ ~AcceptingRunExists
    /\ npda_arg \in ReachedFrom(npda_arg)

NoEpsilonInputCycle == NoEpsilonInputCycleIn(npda_transitions)

\* C22: on an automaton without a cycle of transitions with epsilon input
\* symbol, every accepts call returns, never caught in unbounded recursion,
\* and returns True exactly when some sequence of applicable transitions
\* accepts the string.
C22_TerminationWithoutEpsilonCycles ==
    /\ []((npda_pc \in {"call", "loop"} /\ NoEpsilonInputCycle) => <>(npda_pc = "done"))
    /\ [](NoEpsilonInputCycle => npda_pc # "unbounded")
    /\ []((npda_pc = "done" /\ NoEpsilonInputCycle) =>
             (npda_result = "True" <=> AcceptingRunExists))

\* accepts has returned False on the longest input after a search through
\* transitions of which one has epsilon as input symbol, and none is on such a
\* cycle
C22_Witness ==
    /\ npda_pc = "done"
    /\ npda_result = "False"
    /\ NoEpsilonInputCycle
    /\ EpsilonInputGraphOf(npda_transitions) # {}
    /\ Len(npda_input) = MaxNPDAInputLen
    /\ npda_last.applied
    /\ npda_last.transition[2] = "e"

-----------------------------------------------------------------------------
(* Claims about the tape and the accept state of the Turing machine *)

\* C23: the head is always within 0..len(tape); the cell at len(tape) reads
\* as blank and reading it leaves the tape as it is; a step changes no cell
\* but the one under the head, never shortens the tape, and lengthens it by
\* one cell at most, and only with the head at len(tape).
C23_TapeDiscipline ==
    /\ [](tm_pc \in {"run", "done"} => (0 <= tm_head /\ tm_head <= Len(tm_tape)))
    /\ [][(tm_pc = "run" /\ tm_head = Len(tm_tape)) =>
            IF tm_steps' = tm_steps + 1
            THEN tm_last'.transition[2] = "."
            ELSE tm_tape' = tm_tape /\ \A t \in tm_transitions :
                                         t[1] = tm_state => t[2] # "."]_vars
    /\ [][tm_pc = "run" =>
            /\ Len(tm_tape') >= Len(tm_tape)
            /\ Len(tm_tape') <= Len(tm_tape) + 1
            /\ Len(tm_tape') = Len(tm_tape) + 1 => tm_head = Len(tm_tape)
            /\ \A i \in 1..Len(tm_tape) : i # tm_head + 1 => tm_tape'[i] = tm_tape[i]]_vars

\* a step with the head at len(tape) has read a blank and added its cell, and
\* the head is at the end of the longer tape again
C23_Witness ==
    /\ tm_pc = "run"
    /\ tm_last.applied
    /\ tm_last.head = Len(tm_tape) - 1
    /\ tm_last.transition[2] = "."
    /\ tm_input # <<>>
    /\ Len(tm_tape) = Len(tm_input) + 1
    /\ tm_head = Len(tm_tape)

\* C24: a simulation whose state is "accept" returns True at once, the tape
\* neither read nor written, whatever transitions leave "accept"; a machine
\* started in "accept" accepts every string without a step.
C24_AcceptIsTerminal ==
    /\ [][(tm_pc = "run" /\ tm_state = "accept") =>
            /\ tm_pc' = "done"
            /\ tm_result' = "True"
            /\ UNCHANGED <<tm_tape, tm_head, tm_state, tm_steps, tm_last>>]_vars
    /\ []((tm_pc = "run" /\ tm_state = "accept") => <>(tm_pc = "done"))
    /\ []((tm_pc = "done" /\ tm_start = "accept") =>
             (tm_result = "True" /\ tm_steps = 0 /\ tm_tape = tm_input))

\* a machine started in "accept" has accepted a string whose first symbol a
\* transition from "accept" reads
C24_Witness ==
    /\ tm_pc = "done"
    /\ tm_result = "True"
    /\ tm_start = "accept"
    /\ tm_steps = 0
    /\ tm_input # <<>>
    /\ \E t \in tm_transitions : t[1] = "accept" /\ t[2] = tm_input[1]

-----------------------------------------------------------------------------
(* Claims about the order of the rules and the strings of a derivation *)

\* C25: whether generate returns a derivation or [] is the same for every
\* order in which the rules of each variable can be met, the order of the
\* query that returned among them.
C25_OrderIndependence ==
    cfg_pc = "done" =>
        \A order \in Orders(cfg_rules) :
            (leftmost_derive(order, <<cfg_start>>, FreshPool).verdict = "found")
                <=> (cfg_result # <<>>)

\* generate returned a derivation, and a search meeting the rules in another
\* order visits other strings
C25_Witness ==
    /\ cfg_pc = "done"
    /\ cfg_result # <<>>
    /\ \E order \in Orders(cfg_rules) :
          /\ order # cfg_order
          /\ leftmost_derive(order, <<cfg_start>>, FreshPool).pool # cfg_pool
          /\ leftmost_derive(cfg_order, <<cfg_start>>, FreshPool).pool = cfg_pool

\* C26: for a grammar without the epsilon symbol in its right-hand sides, the
\* strings of a derivation that generate returns are pairwise distinct, and
\* compressing the derivation changes nothing.
C26_LoopFree ==
    (cfg_pc = "done" /\ cfg_result # <<>> /\ NoEpsilonRules(cfg_rules)) =>
        /\ NoRepeat(cfg_result)
        /\ Minimize(cfg_result) = cfg_result

\* a derivation of several steps from a grammar without epsilon: the first
\* rule met for its second string led back to the start variable
C26_Witness ==
    /\ cfg_pc = "done"
    /\ NoEpsilonRules(cfg_rules)
    /\ Len(cfg_result) >= 3
    /\ cfg_result[2] = <<"A">>
    /\ "A" \in DOMAIN cfg_order
    /\ cfg_order["A"][1] = <<"A", <<"S">>>>

=============================================================================
